---------------------------- MODULE Spec2Model ----------------------------
(***************************************************************************)
(* crossbarjs: the facade over an autobahn connection (crossbarFactory).   *)
(*                                                                         *)
(* One step of the model is one turn of the JavaScript event loop: a call  *)
(* of the public interface, or a callback of the underlying client (the    *)
(* transport opens or closes, a request is answered), together with every  *)
(* promise reaction that runs before the loop takes the next event.        *)
(***************************************************************************)
EXTENDS Integers, Sequences, FiniteSets, TLC

(***************************************************************************)
(* Bounds of the model.                                                    *)
(***************************************************************************)
MaxConns == 2       \* connection objects created by connect()
MaxSess == 2        \* sessions the transport opens over the whole run
MaxHandles == 3     \* handles the underlying client returns over the run
MaxCalls == 4       \* calls of the public interface over the run
MaxTasks == 1       \* calls whose deferred result may be pending at once
MaxPending == 2     \* the same, where disconnect is called while one is pending
MaxReopened == 3    \* sessions, where a connection is lost during a recovery

Topics == {"t1", "t2"}
Procs == {"p1", "p2"}
NotAString == "{}"                  \* a name for which isString is false
Names == Procs \cup {NotAString}

Slots == 1..MaxTasks
TaskIds == 1..(IF MaxPending > MaxTasks THEN MaxPending ELSE MaxTasks)
ConnIds == 1..MaxConns
SessIds == 1..(IF MaxReopened > MaxSess THEN MaxReopened ELSE MaxSess)

(***************************************************************************)
(* JavaScript values.                                                      *)
(***************************************************************************)
\* a user function, and what deCrossbarify makes of it: depth counts the wraps
Func(f) == [type |-> "function", fn |-> f, depth |-> 0]
NotAFunction == [type |-> "string", fn |-> "Not a function!", depth |-> 0]
NoCb == [type |-> "undefined", fn |-> "", depth |-> 0]
UserFuncs == {Func("f")}

isString(name) == name # NotAString
isFunction_Any(func) == TRUE
isFunction(func) == func.type = "function"

\* a registration of the callback as it is, not wrapped
deCrossbarify_Identity(callback) == callback

\* callback => args => callback.call( null, ...args )
deCrossbarify(callback) ==
    [type |-> "function", fn |-> callback.fn, depth |-> callback.depth + 1]

(***************************************************************************)
(* The values a call or a publication carries, and the user functions.     *)
(***************************************************************************)
\* a number, a string (its characters), an array (its elements), undefined,
\* NaN, null and an object
Val(type, num, chars, items) ==
    [type |-> type, num |-> num, chars |-> chars, items |-> items]
Num(n) == Val("number", n, << >>, << >>)
Str(chars) == Val("string", 0, chars, << >>)
Arr(items) == Val("array", 0, << >>, items)
Undefined == Val("undefined", 0, << >>, << >>)
NaN == Val("NaN", 0, << >>, << >>)
Null == Val("null", 0, << >>, << >>)
Object == Val("object", 0, << >>, << >>)

Hola == Str(<<"H", "o", "l", "a">>)
Mundo == Str(<<"M", "u", "n", "d", "o">>)
HolaMundo == Str(<<"H", "o", "l", "a", " ", "M", "u", "n", "d", "o">>)

\* v[ i ]: an element of an array, a character of a string, else undefined
index(v, i) ==
    IF v.type = "array" /\ i + 1 <= Len(v.items) THEN v.items[i + 1]
    ELSE IF v.type = "string" /\ i + 1 <= Len(v.chars) THEN Str(<<v.chars[i + 1]>>)
    ELSE Undefined

\* String( v ), for the values an addition meets
RECURSIVE digits(_)
digits(n) ==
    LET d == <<"0", "1", "2", "3", "4", "5", "6", "7", "8", "9">>[(n % 10) + 1]
    IN  IF n < 10 THEN <<d>> ELSE digits(n \div 10) \o <<d>>
toChars(v) ==
    IF v.type = "string" THEN v.chars
    ELSE IF v.type = "number" THEN digits(v.num)
    ELSE IF v.type = "undefined"
    THEN <<"u", "n", "d", "e", "f", "i", "n", "e", "d">>
    ELSE IF v.type = "null" THEN <<"n", "u", "l", "l">>
    ELSE <<"N", "a", "N">>

\* a + b: the sum of two numbers, the concatenation where one is a string,
\* NaN for a number and undefined
plus(a, b) ==
    IF a.type = "number" /\ b.type = "number" THEN Num(a.num + b.num)
    ELSE IF a.type = "string" \/ b.type = "string"
    THEN Str(toChars(a) \o toChars(b))
    ELSE NaN

\* the i-th parameter of a function called with params
param(params, i) == IF i <= Len(params) THEN params[i] ELSE Undefined

\* the user functions: the subscriber ( n1, n2 ) => { ... } and the procedures
\* args => args[ 0 ] + 2 and args => args[ 0 ] + " " + args[ 1 ] of rpcList
body(fn, params) ==
    IF fn = "add2" THEN plus(index(param(params, 1), 0), Num(2))
    ELSE IF fn = "concat2"
    THEN plus(plus(index(param(params, 1), 0), Str(<<" ">>)),
              index(param(params, 1), 1))
    ELSE Undefined

\* a call of a user function
NoInvocation == [cb |-> "", params |-> << >>, result |-> Undefined]
apply(fn, params) == [cb |-> fn, params |-> params, result |-> body(fn, params)]

\* ...args: the elements of an array as parameters
spread(args) == args.items

\* the underlying client calls a handler with ( args, kwargs, details ); a
\* handler deCrossbarify made calls callback.call( null, ...args )
RECURSIVE invoke(_, _)
invoke(cb, params) ==
    IF cb.depth = 0 THEN apply(cb.fn, params)
    ELSE invoke([cb EXCEPT !.depth = @ - 1], spread(param(params, 1)))

\* a result on its way to the caller, as JSON: NaN and undefined are null
serialize(v) == IF v.type \in {"NaN", "undefined"} THEN Null ELSE v

(***************************************************************************)
(* Handles, errors and options.                                            *)
(***************************************************************************)
\* an opaque handle of the underlying client; NoHandle where there is none
NoHandle == [sess |-> 0, id |-> 0]

\* errors: a kind, the name the message carries ("" for none) and what the
\* message quotes of the error it wraps ("" where it wraps none)
Err(kind, key) == [kind |-> kind, key |-> key, cause |-> ""]
NoErr == Err("", "")

\* JSON.stringify( err ): an Error of the language has no enumerable field;
\* an error of the underlying client is an object with its fields
JSONstringify(err) ==
    IF err.kind = "Underlying" THEN "{error: " \o err.key \o "}" ELSE "{}"

\* new Error( `Failed to ... "${name}": ${JSON.stringify(err)}` )
Failed(kind, name, err) ==
    [kind |-> kind, key |-> name, cause |-> JSONstringify(err)]

DefaultOpt == "{}"
DEFAULT_OPTS ==
    [connect |-> "ws://localhost:8080/ws realm1", publish |-> DefaultOpt,
     subscribe |-> DefaultOpt, call |-> DefaultOpt, register |-> DefaultOpt]

\* Object.assign( target, source ): the keys of source take its values, the
\* other keys of target stay
assign(target, source) ==
    [key \in DOMAIN target \cup DOMAIN source |->
        IF key \in DOMAIN source THEN source[key] ELSE target[key]]

\* an object without a property: {}
NoObject == [key \in {} |-> ""]

\* setOpts as an assignment, options = newOpts
setOpts_Replace(opts, newOpts) == newOpts

\* setOpts( newOpts )
setOpts(opts, newOpts) == assign(opts, newOpts)

\* getOpts()
getOpts(opts) == assign(NoObject, opts)

\* setOptsDefault()
setOptsDefault(defs) == assign(NoObject, defs)

\* an object that is new: none of the object other and the one DEFAULT_OPTS holds
FreshObject(other) == IF other = 1 THEN 2 ELSE 1

VARIABLES
    connection,       \* let connection: 0 (undefined) or a connection object
    conns,            \* the autobahn.Connection objects created so far
    options,          \* let options
    objects,          \* which object each value of options is: 0 for the one
                      \* DEFAULT_OPTS holds, n > 0 for one a caller has made
    defaults,         \* what the objects DEFAULT_OPTS holds contain now
    returned,         \* the object the last getOpts() returned, as its caller has it
    events,           \* const events: the four lifecycle slots
    subscritionMap,   \* Map topic -> {cb, opResult}, in insertion order
    registrationMap,  \* Map name -> {cb, opResult}, in insertion order
    tasks,            \* the calls of the interface and their deferred results
    recs,             \* the recoveries, by the session whose open started them
    broker,           \* handles live at the router
    nextSess,         \* the next session the transport will open
    nextHandle,       \* the next handle the underlying client will return
    calls,            \* calls of the public interface made so far
    received          \* the last call of a user function by the underlying client

vars == <<connection, conns, options, objects, defaults, returned, events, subscritionMap, registrationMap,
          tasks, recs, broker, nextSess, nextHandle, calls, received>>

NoReq == [action |-> "", id |-> "", cb |-> NoCb, args |-> << >>, opts |-> "",
          h |-> NoHandle, sess |-> 0]

\* what a promise is rejected with and what a close callback is called with:
\* the reason and the details of a close ("" where there is none yet)
NoClose == [reason |-> "", details |-> ""]
NoCloseCall == [hook |-> "", reason |-> "", details |-> ""]

\* a connection object: promise and rejection are the result of the connect
\* that created it; opens counts its open events; openCall says what the
\* events.onOpen() of its last open event did, closeCall what its last close
\* event called and with what
NoConn == [state |-> "none", onopen |-> "none",
           onclose |-> [h |-> "none", v |-> "", slot |-> 0],
           session |-> 0, promise |-> "none", opens |-> 0,
           rejection |-> NoClose, openCall |-> "", closeCall |-> NoCloseCall]

NoTask == [op |-> "", list |-> << >>, i |-> 0, req |-> NoReq,
           res |-> "none", err |-> NoErr, value |-> Undefined]

NoRec == [pc |-> "none", phase |-> 0, idx |-> 0, req |-> NoReq, log |-> << >>,
          errs |-> << >>, outcome |-> "none", onRecover |-> 0,
          thenFn |-> "", catchFn |-> "", tracked |-> {}, failed |-> << >>,
          error |-> NoErr]

\* const events = { onClose: () => {}, onOpen: ..., onRecover: ..., onError: ... }
DefaultEvents ==
    [onClose |-> "noop", onOpen |-> "noop", onRecover |-> "noop",
     onError |-> "noop"]

Init ==
    /\ connection = 0
    /\ conns = [c \in ConnIds |-> NoConn]
    /\ options = DEFAULT_OPTS
    /\ objects = [key \in DOMAIN DEFAULT_OPTS |-> 0]
    /\ defaults = DEFAULT_OPTS
    /\ returned = NoObject
    /\ events = DefaultEvents
    /\ subscritionMap = << >>
    /\ registrationMap = << >>
    /\ tasks = [k \in TaskIds |-> NoTask]
    /\ recs = [s \in SessIds |-> NoRec]
    /\ broker = {}
    /\ nextSess = 1
    /\ nextHandle = 1
    /\ calls = 0
    /\ received = NoInvocation


(***************************************************************************)
(* Map: a sequence of [key, cb, opResult] in insertion order.  An iterator *)
(* of a Map is the number of entries it has taken; an entry set during the *)
(* iteration is visited, a deleted one is not.                             *)
(***************************************************************************)
MapHas(map, key) == \E i \in 1..Len(map) : map[i].key = key
MapIdx(map, key) == CHOOSE i \in 1..Len(map) : map[i].key = key
MapGet(map, key) == map[MapIdx(map, key)]
MapKeys(map) == {map[i].key : i \in 1..Len(map)}
MapSet(map, key, cb, opResult) ==
    LET e == [key |-> key, cb |-> cb, opResult |-> opResult]
    IN  IF MapHas(map, key) THEN [map EXCEPT ![MapIdx(map, key)] = e]
        ELSE Append(map, e)
MapDelete(map, key) ==
    IF MapHas(map, key)
    THEN LET j == MapIdx(map, key)
         IN  SubSeq(map, 1, j - 1) \o SubSeq(map, j + 1, Len(map))
    ELSE map

\* getSession(): connection.session, 0 when the connection holds none
getSession(conn, cs) == cs[conn].session
\* whether getSession()[ action ] can be read at all
HasSession(conn, cs) == conn # 0 /\ cs[conn].session # 0

\* add: the request getSession()[ action ]( id, callback, options ) issues
add(action, id, callback, opts, sess) ==
    [action |-> action, id |-> id, cb |-> callback, args |-> << >>,
     opts |-> opts, h |-> NoHandle, sess |-> sess]

\* add's .then storing the callback without the result of the request
addThen_NoResult(map, req, result) == MapSet(map, req.id, req.cb, NoHandle)

\* add's .then: map.set( id, { cb: callback, opResult: result } )
addThen(map, req, result) == MapSet(map, req.id, req.cb, result)

\* a replay that writes its result into the registry
sinkThen_Live(map, req, result) == addThen(map, req, result)

\* add's .then on the sink of a replay, { set: () => {} }: the registry the
\* recovery reads is not the map it writes
sinkThen(map, req, result) == map

\* remove handing the underlying client the key, not the stored handle
remove_ByKey(action, id, map, sess) ==
    [action |-> action, id |-> id, cb |-> NoCb, opts |-> "",
     h |-> NoHandle, sess |-> sess]

\* remove: the request getSession()[ action ]( map.get( id ).opResult ) issues
remove(action, id, map, sess) ==
    [action |-> action, id |-> id, cb |-> NoCb, opts |-> "",
     h |-> MapGet(map, id).opResult, sess |-> sess]

\* remove's .then deleting nothing
removeThen_Keep(map, req) == map

\* remove's .then: map.delete( id )
removeThen(map, req) == MapDelete(map, req.id)

(***************************************************************************)
(* A call of the interface: what it is doing and its deferred result.      *)
(* res: pending | resolved | rejected | thrown (a synchronous throw).      *)
(***************************************************************************)
Awaiting(op, list, i, req) ==
    [op |-> op, list |-> list, i |-> i, req |-> req, res |-> "pending",
     err |-> NoErr, value |-> Undefined]
Settled(op, list, i, res, err) ==
    [op |-> op, list |-> list, i |-> i, req |-> NoReq, res |-> res, err |-> err,
     value |-> Undefined]

RPC(name, func) == [name |-> name, func |-> func]

\* subscribe without its subscritionMap.has( topic ) test
subscribe_NoHasTest(topic, callback, map, opts, conn, cs) ==
    LET l == <<RPC(topic, callback)>>
    IN  IF ~HasSession(conn, cs)
        THEN Settled("subscribe", l, 1, "thrown", Err("NoSession", topic))
        ELSE Awaiting("subscribe", l, 1,
                 add("subscribe", topic, deCrossbarify(callback), opts.subscribe,
                     getSession(conn, cs)))

\* subscribe( topic, callback )
subscribe(topic, callback, map, opts, conn, cs) ==
    LET l == <<RPC(topic, callback)>>
    IN  IF MapHas(map, topic)
        THEN Settled("subscribe", l, 1, "rejected", Err("AlreadySubscribed", topic))
        ELSE IF ~HasSession(conn, cs)
        THEN Settled("subscribe", l, 1, "thrown", Err("NoSession", topic))
        ELSE Awaiting("subscribe", l, 1,
                 add("subscribe", topic, deCrossbarify(callback), opts.subscribe,
                     getSession(conn, cs)))

\* unsubscribe( topic )
unsubscribe(topic, map, conn, cs) ==
    LET l == <<RPC(topic, NoCb)>>
    IN  IF ~MapHas(map, topic)
        THEN Settled("unsubscribe", l, 1, "rejected", Err("NotSubscribed", topic))
        ELSE IF ~HasSession(conn, cs)
        THEN Settled("unsubscribe", l, 1, "thrown", Err("NoSession", topic))
        ELSE Awaiting("unsubscribe", l, 1,
                 remove("unsubscribe", topic, map, getSession(conn, cs)))

\* registerOne( name, func ) called from register( name, func )
registerOne(name, func, opts, conn, cs) ==
    LET l == <<RPC(name, func)>>
    IN  IF ~isString(name)
        THEN Settled("register", l, 1, "rejected", Err("TypeError", name))
        ELSE IF ~isFunction(func)
        THEN Settled("register", l, 1, "rejected", Err("TypeError", func.fn))
        ELSE IF ~HasSession(conn, cs)
        THEN Settled("register", l, 1, "thrown", Err("NoSession", name))
        ELSE Awaiting("register", l, 1,
                 add("register", name, deCrossbarify(func), opts.register,
                     getSession(conn, cs)))

\* registerMany without its await: the requests of all the elements leave in
\* one turn and the call awaits the last of them
registerMany_AllAtOnce(rpcList, i, opts, conn, cs) ==
    IF i > Len(rpcList) \/ ~HasSession(conn, cs)
    THEN Settled("registerMany", rpcList, i, "resolved", NoErr)
    ELSE Awaiting("registerMany", rpcList, Len(rpcList),
             add("register", rpcList[Len(rpcList)].name,
                 deCrossbarify(rpcList[Len(rpcList)].func), opts.register,
                 getSession(conn, cs)))

\* registerMany( rpcList ) from its i-th element to its next await or its end
registerMany(rpcList, i, opts, conn, cs) ==
    IF i > Len(rpcList)
    THEN Settled("registerMany", rpcList, i, "resolved", NoErr)
    ELSE LET rpc == rpcList[i]
         IN  IF ~isString(rpc.name) \/ ~isFunction(rpc.func)
             THEN \* registerOne rejects, the catch wraps it with rpc.name
                  Settled("registerMany", rpcList, i, "rejected",
                          Failed("FailedToRegister", rpc.name,
                                 Err("TypeError", rpc.name)))
             ELSE IF ~HasSession(conn, cs)
             THEN \* add throws inside the async function, past the catch
                  Settled("registerMany", rpcList, i, "rejected",
                          Err("NoSession", ""))
             ELSE Awaiting("registerMany", rpcList, i,
                      add("register", rpc.name, deCrossbarify(rpc.func),
                          opts.register, getSession(conn, cs)))

\* unregisterMany( rpcNamesList ) from its i-th name to its next await or its
\* end; the catch names rpcName.name, which a string does not have
unregisterMany(rpcNamesList, i, map, conn, cs) ==
    IF i > Len(rpcNamesList)
    THEN Settled("unregister", rpcNamesList, i, "resolved", NoErr)
    ELSE LET rpcName == rpcNamesList[i].name
         IN  IF ~isString(rpcName)
             THEN Settled("unregister", rpcNamesList, i, "rejected",
                          Failed("FailedToUnregister", "undefined",
                                 Err("TypeError", rpcName)))
             ELSE IF ~MapHas(map, rpcName)
             THEN \* unregisterOne rejects with "... is not registered."
                  Settled("unregister", rpcNamesList, i, "rejected",
                          Failed("FailedToUnregister", "undefined",
                                 Err("NotRegistered", rpcName)))
             ELSE IF ~HasSession(conn, cs)
             THEN Settled("unregister", rpcNamesList, i, "rejected",
                          Err("NoSession", ""))
             ELSE Awaiting("unregister", rpcNamesList, i,
                      remove("unregister", rpcName, map, getSession(conn, cs)))

\* register( ...args ): an array, or a name and a function, or neither
register(args, opts, conn, cs) ==
    IF args.shape = "array" THEN registerMany(args.list, 1, opts, conn, cs)
    ELSE IF /\ args.shape = "pair"
            /\ isString(args.list[1].name) /\ isFunction(args.list[1].func)
    THEN registerOne(args.list[1].name, args.list[1].func, opts, conn, cs)
    ELSE Settled("register", args.list, 1, "rejected",
                 Err("Unrecognized parameters", ""))

\* unregister( ...args )
unregister(args, map, conn, cs) == unregisterMany(args, 1, map, conn, cs)

(***************************************************************************)
(* The recovery.  A recovery is at phase PhaseOrder[phase], has taken idx  *)
(* entries of that phase's Map, and awaits at most one request.  log: the  *)
(* replays it issued; errs: what it passed to events.onError; onRecover:   *)
(* how often it called events.onRecover; tracked: the entries of the two   *)
(* registries when it started; failed: the replays the underlying client   *)
(* rejected, each with the events.onError of that moment; error: what     *)
(* recover() was rejected with.                                            *)
(***************************************************************************)
\* recover with its two phases exchanged
PhaseOrder_RegisterFirst == <<"register", "subscribe">>

\* recover: recoverFromMap( "subscribe", ... ) then recoverFromMap( "register", ... )
PhaseOrder == <<"subscribe", "register">>

MapOf(action, subs, regs) == IF action = "subscribe" THEN subs ELSE regs

\* the callback recoverFromMap hands to add: data.cb, as stored
replayCallback(data) == data.cb

\* hooks: a slot holds "noop" (the default), "fn" (a user function) or "bad"
\* (a value that is no function, whose call throws a TypeError)
Callable(hook) == hook # "bad"

\* recover().then( events.onRecover ).catch( events.onError ), recover
\* fulfilled: the reaction is the events.onRecover read when recover was called
recoverResolved(r) ==
    [r EXCEPT !.pc = "done", !.req = NoReq, !.outcome = "resolved",
              !.onRecover = IF Callable(r.thenFn) THEN @ + 1 ELSE @]

\* the same, recover rejected with err: the reaction is the events.onError read
\* when recover was called; a value that is no function is no reaction
recoverRejected(r, err) ==
    [r EXCEPT !.pc = "done", !.req = NoReq, !.outcome = "rejected",
              !.error = err,
              !.errs = IF Callable(r.catchFn) THEN Append(@, err) ELSE @]

\* recoverFromMap from the idx-th entry of a phase to the next await, or to
\* the end of recover
RECURSIVE recoverFromMap(_, _, _, _, _, _, _, _, _)
recoverFromMap(r, phase, idx, subs, regs, opts, ev, conn, cs) ==
    IF phase > Len(PhaseOrder) THEN recoverResolved(r)
    ELSE LET action == PhaseOrder[phase]
             map == MapOf(action, subs, regs)
         IN  IF idx >= Len(map)
             THEN recoverFromMap(r, phase + 1, 0, subs, regs, opts, ev, conn, cs)
             ELSE IF ~HasSession(conn, cs)
             THEN \* add throws inside the async function: recover rejects
                  recoverRejected([r EXCEPT !.phase = phase, !.idx = idx + 1],
                                  Err("NoSession", map[idx + 1].key))
             ELSE LET req == add(action, map[idx + 1].key,
                                 replayCallback(map[idx + 1]), opts[action],
                                 getSession(conn, cs))
                  IN  [r EXCEPT !.pc = "await", !.phase = phase,
                                !.idx = idx + 1, !.req = req,
                                !.log = Append(@, req)]

\* what the registries hold: the entries a recovery finds when it starts
Tracked(subs, regs) ==
    {[action |-> "subscribe", key |-> k] : k \in MapKeys(subs)}
        \cup {[action |-> "register", key |-> k] : k \in MapKeys(regs)}

\* recover(), called by the handler of a reopen
recover(subs, regs, opts, ev, conn, cs) ==
    recoverFromMap([NoRec EXCEPT !.thenFn = ev.onRecover,
                                 !.catchFn = ev.onError,
                                 !.tracked = Tracked(subs, regs)],
                   1, 0, subs, regs, opts, ev, conn, cs)

\* the answer to a replay: add's sink { set: () => {} } drops the result;
\* a rejection goes to .catch( err => events.onError( err ) ), and a throw of
\* that handler rejects recoverFromMap
replayAnswered(r, ok, subs, regs, opts, ev, conn, cs) ==
    LET rejected == [r EXCEPT !.failed =
                        Append(@, [key |-> r.req.id, hook |-> ev.onError])]
    IN  IF ok
        THEN recoverFromMap(r, r.phase, r.idx, subs, regs, opts, ev, conn, cs)
        ELSE IF Callable(ev.onError)
        THEN recoverFromMap(
                 [rejected EXCEPT !.errs = Append(@, Err("Underlying", r.req.id))],
                 r.phase, r.idx, subs, regs, opts, ev, conn, cs)
        ELSE recoverRejected(rejected, Err("TypeError", "onError"))

\* a Map entry was deleted during an iteration: the iterators past it move
iteratorsAfterDelete(rs, action, j) ==
    [s \in SessIds |->
        IF /\ rs[s].pc = "await" /\ PhaseOrder[rs[s].phase] = action
           /\ rs[s].idx >= j
        THEN [rs[s] EXCEPT !.idx = @ - 1]
        ELSE rs[s]]

(***************************************************************************)
(* The underlying client and the router.                                   *)
(***************************************************************************)
SessionLive(s) == \E c \in ConnIds : conns[c].session = s /\ s # 0

\* whether the router can accept a request: its session is open; a procedure
\* has one registration; a handle to cancel is one the session holds
canSucceed(req) ==
    /\ SessionLive(req.sess)
    /\ req.action \in {"subscribe", "register"} => nextHandle <= MaxHandles
    /\ req.action = "register" =>
          ~\E h \in broker : h.kind = "register" /\ h.key = req.id
    /\ req.action \in {"unsubscribe", "unregister"} =>
          \E h \in broker : h.sess = req.h.sess /\ h.id = req.h.id
                            /\ h.sess = req.sess

newHandle(req) == [sess |-> req.sess, id |-> nextHandle]
brokerAdd(req) ==
    broker \cup {[sess |-> req.sess, id |-> nextHandle, kind |-> req.action,
                  key |-> req.id, cb |-> req.cb]}
brokerRemove(req) ==
    {h \in broker : ~(h.sess = req.h.sess /\ h.id = req.h.id)}

(***************************************************************************)
(* call and publish.                                                       *)
(***************************************************************************)
\* the publish options in use: none, acknowledge false or true, or
\* exclude_me false (the publisher receives its own publication)
PublishOpts ==
    {DefaultOpt, "{acknowledge: false}", "{acknowledge: true}", "{exclude_me: false}"}

\* options.publish.acknowledge
acknowledge(opts) ==
    IF opts = "{acknowledge: true}" THEN "true"
    ELSE IF opts = "{acknowledge: false}" THEN "false"
    ELSE "undefined"

\* getSession().call( ... ) and getSession().publish( ... ) throw where there
\* is no connection or no session, and for a name that is no string
throws(id, conn, cs) == ~HasSession(conn, cs) \/ ~isString(id)

thrown(id, conn, cs) ==
    IF ~HasSession(conn, cs) THEN Err("NoSession", "") ELSE Err("TypeError", "")

\* a request that leaves its arguments behind
request_NoArgs(action, id, args, opts, sess) ==
    [NoReq EXCEPT !.action = action, !.id = id, !.opts = opts, !.sess = sess]

\* getSession()[ action ]( id, args, {}, opts ): the request of a call or of
\* a publication, with the rest parameter as its array of arguments
request(action, id, args, opts, sess) ==
    [NoReq EXCEPT !.action = action, !.id = id, !.args = args, !.opts = opts,
                  !.sess = sess]

\* call without its try and catch
call_NoCatch(rpcName, args, opts, conn, cs) ==
    LET l == <<RPC(rpcName, NoCb)>>
    IN  IF throws(rpcName, conn, cs)
        THEN Settled("call", l, 1, "thrown", thrown(rpcName, conn, cs))
        ELSE Awaiting("call", l, 1,
                 request("call", rpcName, args, opts.call, getSession(conn, cs)))

\* call( rpcName, ...args )
call(rpcName, args, opts, conn, cs) ==
    LET l == <<RPC(rpcName, NoCb)>>
    IN  IF throws(rpcName, conn, cs)
        THEN Settled("call", l, 1, "rejected", thrown(rpcName, conn, cs))
        ELSE Awaiting("call", l, 1,
                 request("call", rpcName, args, opts.call, getSession(conn, cs)))

\* publish( topic, ...params ): res is what the underlying publish returns, a
\* promise when the options ask for an acknowledgement and undefined
\* otherwise; the request has left in both cases
publish(topic, params, opts, conn, cs) ==
    LET l == <<RPC(topic, NoCb)>>
        req == request("publish", topic, params, opts.publish, getSession(conn, cs))
        res == IF acknowledge(opts.publish) = "true"
               THEN Awaiting("publish", l, 1, req)
               ELSE [Settled("publish", l, 1, "undefined", NoErr) EXCEPT !.req = req]
    IN  IF throws(topic, conn, cs)
        THEN Settled("publish", l, 1, "rejected", thrown(topic, conn, cs))
        ELSE IF acknowledge(opts.publish) # "undefined"
        THEN res
        ELSE [Settled("publish", l, 1, "resolved", NoErr) EXCEPT !.req = req]

(***************************************************************************)
(* The calls of the public interface.                                      *)
(***************************************************************************)
\* a call takes the first slot whose deferred result is not pending
Free(k) ==
    /\ tasks[k].res # "pending"
    /\ \A j \in TaskIds : j < k => tasks[j].res = "pending"

Call(k, t) ==
    /\ calls < MaxCalls
    /\ Free(k)
    /\ tasks' = [tasks EXCEPT ![k] = t]
    /\ calls' = calls + 1

\* reject( reason, details ) of connect: a promise's reject takes one value
reject(reason, details) == [reason |-> reason, details |-> "undefined"]

\* connect( connectOpts = options.connect )
Connect(c) ==
    /\ calls < MaxCalls
    /\ conns[c].state = "none"
    /\ \A d \in ConnIds : d < c => conns[d].state # "none"
    /\ connection' = c
    /\ conns' = [conns EXCEPT ![c] =
                    [NoConn EXCEPT
                       !.state = "opening", !.onopen = "first",
                       !.onclose = [h |-> "connect", v |-> "", slot |-> 0],
                       !.promise = "pending"]]
    /\ calls' = calls + 1
    /\ UNCHANGED <<received, options, objects, defaults, returned, events, subscritionMap, registrationMap, tasks,
                   recs, broker, nextSess, nextHandle>>

\* disconnect( reason, message )
Disconnect(k) ==
    LET l == << >>
        closing == [conns EXCEPT
                      ![connection].onclose = [h |-> "resolve", v |-> "", slot |-> k]]
    IN  IF connection = 0
        THEN \* connection.onclose = resolve throws inside the executor
             /\ Call(k, Settled("disconnect", l, 0, "rejected", Err("TypeError", "connection")))
             /\ UNCHANGED conns
        ELSE IF conns[connection].state = "closed"
        THEN \* connection.close throws: reject( error )
             /\ Call(k, Settled("disconnect", l, 0, "rejected", Err("CloseThrew", "")))
             /\ conns' = [closing EXCEPT ![connection].onclose.slot = 0]
        ELSE /\ Call(k, Awaiting("disconnect", l, 0, NoReq))
             /\ conns' = [closing EXCEPT ![connection].state =
                             IF @ = "retrying" THEN "closed" ELSE "closing"]

\* a disconnect that forgets what the facade tracks
DisconnectCall_Clearing(k) ==
    /\ Disconnect(k)
    /\ subscritionMap' = << >>
    /\ registrationMap' = << >>
    /\ UNCHANGED <<received, connection, options, objects, defaults, returned,
                   events, recs, broker, nextSess, nextHandle>>

DisconnectCall(k) ==
    /\ Disconnect(k)
    /\ UNCHANGED <<received, connection, options, objects, defaults, returned, events, subscritionMap,
                   registrationMap, recs, broker, nextSess, nextHandle>>

Quiet == UNCHANGED <<received, connection, conns, options, objects, defaults, returned, events, subscritionMap,
                     registrationMap, recs, broker, nextSess, nextHandle>>

Subscribe(k, topic, callback) ==
    /\ Call(k, subscribe(topic, callback, subscritionMap, options, connection, conns))
    /\ Quiet

Unsubscribe(k, topic) ==
    /\ Call(k, unsubscribe(topic, subscritionMap, connection, conns))
    /\ Quiet

Register(k, args) ==
    /\ Call(k, register(args, options, connection, conns))
    /\ Quiet

Unregister(k, args) ==
    /\ Call(k, unregister(args, registrationMap, connection, conns))
    /\ Quiet

CallProcedure(k, rpcName, args) ==
    /\ Call(k, call(rpcName, args, options, connection, conns))
    /\ Quiet

Publish(k, topic, params) ==
    /\ Call(k, publish(topic, params, options, connection, conns))
    /\ Quiet

\* onClose( fun ): throws for a value that is no function
OnClose(fun) ==
    /\ calls < MaxCalls
    /\ calls' = calls + 1
    /\ events' = IF Callable(fun) THEN [events EXCEPT !.onClose = fun] ELSE events
    /\ UNCHANGED <<received, connection, conns, options, objects, defaults, returned, subscritionMap, registrationMap,
                   tasks, recs, broker, nextSess, nextHandle>>

\* onOpen( fun ), onRecover( fun ), onError( fun ): the slot takes any value
setHook(slot, fun) ==
    /\ calls < MaxCalls
    /\ calls' = calls + 1
    /\ events' = [events EXCEPT ![slot] = fun]
    /\ UNCHANGED <<received, connection, conns, options, objects, defaults, returned, subscritionMap, registrationMap,
                   tasks, recs, broker, nextSess, nextHandle>>

OnOpen(fun) == setHook("onOpen", fun)
OnRecover(fun) == setHook("onRecover", fun)
OnError(fun) == setHook("onError", fun)

\* setOpts( newOpts ): Object.assign( options, newOpts ); the values of
\* newOpts are objects of the caller, new ones
SetOpts(newOpts) ==
    /\ calls < MaxCalls
    /\ calls' = calls + 1
    /\ options' = setOpts(options, newOpts)
    /\ objects' = assign(objects,
                         [key \in DOMAIN newOpts |->
                             FreshObject(IF key \in DOMAIN returned
                                         THEN returned[key].obj ELSE 0)])
    /\ UNCHANGED <<received, connection, conns, defaults, returned, events, subscritionMap,
                   registrationMap, tasks, recs, broker, nextSess, nextHandle>>

\* setOptsDefault(): options = Object.assign( {}, DEFAULT_OPTS )
SetOptsDefault ==
    /\ calls < MaxCalls
    /\ calls' = calls + 1
    /\ options' = setOptsDefault(defaults)
    /\ objects' = [key \in DOMAIN defaults |-> 0]
    /\ UNCHANGED <<received, connection, conns, defaults, returned, events, subscritionMap,
                   registrationMap, tasks, recs, broker, nextSess, nextHandle>>

\* getOpts(): the caller keeps what it returns
GetOpts ==
    /\ calls < MaxCalls
    /\ calls' = calls + 1
    /\ returned' = [key \in DOMAIN getOpts(options) |->
                       [obj |-> objects[key], val |-> getOpts(options)[key]]]
    /\ UNCHANGED <<received, connection, conns, options, objects, defaults, events,
                   subscritionMap, registrationMap, tasks, recs, broker,
                   nextSess, nextHandle>>

\* the caller of getOpts() writes returned[ key ] = val: a property of the
\* object it was given, which now holds an object of the caller (a step of
\* the caller, counted with its calls)
WriteProperty(key, val) ==
    /\ calls < MaxCalls
    /\ calls' = calls + 1
    /\ key \in DOMAIN returned
    /\ returned' = [returned EXCEPT ![key] =
                       [obj |-> FreshObject(IF key \in DOMAIN objects
                                           THEN objects[key] ELSE 0),
                        val |-> val]]
    /\ UNCHANGED <<received, connection, conns, options, objects, defaults, events,
                   subscritionMap, registrationMap, tasks, recs, broker,
                   nextSess, nextHandle>>

\* the caller writes inside returned[ key ]: every holder of that object,
\* options and DEFAULT_OPTS among them, has the new content
WriteInside(key, val) ==
    /\ calls < MaxCalls
    /\ calls' = calls + 1
    /\ key \in DOMAIN returned
    /\ returned[key].val # val
    /\ returned' = [returned EXCEPT ![key].val = val]
    /\ options' = IF key \in DOMAIN options /\ objects[key] = returned[key].obj
                  THEN [options EXCEPT ![key] = val] ELSE options
    /\ defaults' = IF returned[key].obj = 0
                   THEN [defaults EXCEPT ![key] = val] ELSE defaults
    /\ UNCHANGED <<received, connection, conns, objects, events, subscritionMap,
                   registrationMap, tasks, recs, broker, nextSess, nextHandle>>

(***************************************************************************)
(* The callbacks of the underlying client.                                 *)
(***************************************************************************)
\* connection.onopen as connect installs it, and as its first call leaves it
\* (connection.onopen = ... inside the handler assigns to the connection the
\* variable holds then, which a later connect may have replaced)
onopen(c, cs, rs) ==
    IF ~Callable(events.onOpen)
    THEN \* events.onOpen() throws and the handler ends
         [cs |-> [cs EXCEPT ![c].openCall = "threw"], rs |-> rs]
    ELSE LET called == [cs EXCEPT ![c].openCall = "invoked"]
         IN  IF cs[c].onopen = "first"
             THEN [cs |-> [called EXCEPT
                             ![c].promise = IF @ = "pending" THEN "resolved" ELSE @,
                             ![connection].onopen = "reopen"],
                   rs |-> rs]
             ELSE [cs |-> called,
                   rs |-> [rs EXCEPT ![cs[c].session] =
                              recover(subscritionMap, registrationMap, options,
                                      events, connection, called)]]

\* the transport of connection c opens a session, one of the first n
Opens(c, n) ==
    /\ conns[c].state \in {"opening", "retrying"}
    /\ nextSess <= n
    /\ LET opened == [conns EXCEPT ![c].state = "open", ![c].session = nextSess,
                                   ![c].opens = @ + 1]
           after == onopen(c, opened, recs)
       IN  /\ conns' = after.cs
           /\ recs' = after.rs
    /\ nextSess' = nextSess + 1
    /\ UNCHANGED <<received, connection, options, objects, defaults, returned, events, subscritionMap, registrationMap,
                   tasks, broker, nextHandle, calls>>

TransportOpen(c) == Opens(c, MaxSess)

\* the same where a connection is lost and reopens during a recovery
TransportReopen(c) == Opens(c, MaxReopened)

\* connection.onclose: as connect installs it (h = "connect"), as its first
\* call leaves it (the events.onClose of that moment), or disconnect's resolve
\* (connection.onclose = events.onClose inside the handler assigns to the
\* connection the variable holds then)
onclose(c, cs, ts, reason, details) ==
    LET h == cs[c].onclose
        calling(hook) == [cs EXCEPT ![c].closeCall =
                             [hook |-> hook, reason |-> reason, details |-> details]]
    IN  IF h.h = "connect"
        THEN LET called == calling(events.onClose)
                 settled == IF cs[c].promise = "pending"
                            THEN [called EXCEPT ![c].promise = "rejected",
                                                ![c].rejection = reject(reason, details)]
                            ELSE called
             IN  [cs |-> [settled EXCEPT ![connection].onclose =
                             [h |-> "hook", v |-> events.onClose, slot |-> 0]],
                  ts |-> ts]
        ELSE IF h.h = "resolve"
        THEN [cs |-> [calling("resolve") EXCEPT ![c].onclose.slot = 0],
              ts |-> IF h.slot # 0
                     THEN [ts EXCEPT ![h.slot] =
                              Settled("disconnect", << >>, 0, "resolved", NoErr)]
                     ELSE ts]
        ELSE [cs |-> calling(h.v), ts |-> ts]

\* the reason and the details the underlying client gives a close
closeReason(conn) ==
    IF conn.state = "closing" THEN "closed"
    ELSE IF conn.opens = 0 THEN "unreachable" ELSE "lost"
closeDetails(retry) == IF retry THEN "will_retry" ELSE "no_retry"

\* the transport of connection c closes: lost (the client retries or gives
\* up), or closed as disconnect asked
TransportClose(c, retry) ==
    /\ conns[c].state \in {"opening", "open", "retrying", "closing"}
    /\ conns[c].state = "closing" => ~retry
    /\ LET gone == [conns EXCEPT ![c].state = IF retry THEN "retrying" ELSE "closed",
                                 ![c].session = 0]
           after == onclose(c, gone, tasks, closeReason(conns[c]),
                            closeDetails(retry))
       IN  /\ conns' = after.cs
           /\ tasks' = after.ts
    /\ broker' = {h \in broker : h.sess # conns[c].session}
    /\ UNCHANGED <<received, connection, options, objects, defaults, returned, events, subscritionMap, registrationMap,
                   recs, nextSess, nextHandle, calls>>

\* what a call does when the request it awaits is answered
answered(t, ok, regs) ==
    IF t.op = "registerMany"
    THEN IF ok THEN registerMany(t.list, t.i + 1, options, connection, conns)
         ELSE Settled(t.op, t.list, t.i, "rejected",
                      Failed("FailedToRegister", t.req.id,
                             Err("Underlying", t.req.id)))
    ELSE IF t.op = "unregister"
    THEN IF ok THEN unregisterMany(t.list, t.i + 1, regs, connection, conns)
         ELSE Settled(t.op, t.list, t.i, "rejected",
                      Failed("FailedToUnregister", "undefined",
                             Err("Underlying", t.req.id)))
    ELSE IF ok THEN Settled(t.op, t.list, t.i, "resolved", NoErr)
         ELSE Settled(t.op, t.list, t.i, "rejected", Err("Underlying", t.req.id))

\* a registration of this facade that a call reaches
Callee(h, req) ==
    h.kind = "register" /\ h.key = req.id /\ SessionLive(h.sess)

\* a subscription of this facade that a publication reaches: one of its
\* topic, in the session that published if exclude_me is false
Subscriber(h, req) ==
    /\ h.kind = "subscribe" /\ h.key = req.id /\ SessionLive(h.sess)
    /\ h.sess = req.sess => req.opts = "{exclude_me: false}"

\* the underlying client answers the request call k awaits
AnswerCall(k, ok) ==
    LET t == tasks[k]
        req == t.req
        subs2 == IF ~ok THEN subscritionMap
                 ELSE IF req.action = "subscribe"
                 THEN addThen(subscritionMap, req, newHandle(req))
                 ELSE IF req.action = "unsubscribe"
                 THEN removeThen(subscritionMap, req)
                 ELSE subscritionMap
        regs2 == IF ~ok THEN registrationMap
                 ELSE IF req.action = "register"
                 THEN addThen(registrationMap, req, newHandle(req))
                 ELSE IF req.action = "unregister"
                 THEN removeThen(registrationMap, req)
                 ELSE registrationMap
    IN  /\ t.res = "pending"
        /\ req # NoReq
        /\ ok => canSucceed(req)
        /\ (ok /\ req.action = "call") => ~\E h \in broker : Callee(h, req)
        /\ subscritionMap' = subs2
        /\ registrationMap' = regs2
        /\ tasks' = [tasks EXCEPT ![k] = answered(t, ok, regs2)]
        /\ IF ok /\ req.action \in {"subscribe", "register"}
           THEN /\ broker' = brokerAdd(req)
                /\ nextHandle' = nextHandle + 1
                /\ recs' = recs
           ELSE IF ok
           THEN /\ broker' = brokerRemove(req)
                /\ nextHandle' = nextHandle
                /\ recs' = IF req.action = "unsubscribe"
                           THEN iteratorsAfterDelete(recs, "subscribe",
                                    MapIdx(subscritionMap, req.id))
                           ELSE IF req.action = "unregister"
                           THEN iteratorsAfterDelete(recs, "register",
                                    MapIdx(registrationMap, req.id))
                           ELSE recs
           ELSE UNCHANGED <<broker, nextHandle, recs>>
        /\ UNCHANGED <<received, connection, conns, options, objects, defaults, returned, events, nextSess, calls>>

\* the router has the procedure of the pending call k invoked: the underlying
\* client calls the handler registered, and its result answers the call
InvokeProcedure(k) ==
    LET t == tasks[k]
    IN  /\ t.op = "call" /\ t.res = "pending"
        /\ SessionLive(t.req.sess)
        /\ \E h \in broker :
              /\ Callee(h, t.req)
              /\ received' = invoke(h.cb, <<Arr(t.req.args), Object, Object>>)
        /\ tasks' = [tasks EXCEPT ![k] =
                         [Settled(t.op, t.list, t.i, "resolved", NoErr)
                              EXCEPT !.value = serialize(received'.result)]]
        /\ UNCHANGED <<connection, conns, options, objects, defaults, returned,
                       events, subscritionMap, registrationMap, recs, broker,
                       nextSess, nextHandle, calls>>

\* the router delivers the publication of call k to a subscription
DeliverEvent(k) ==
    LET t == tasks[k]
    IN  /\ t.op = "publish" /\ t.req # NoReq
        /\ \E h \in broker :
              /\ Subscriber(h, t.req)
              /\ received' = invoke(h.cb, <<Arr(t.req.args), Object, Object>>)
        /\ UNCHANGED <<connection, conns, options, objects, defaults, returned,
                       events, subscritionMap, registrationMap, tasks, recs,
                       broker, nextSess, nextHandle, calls>>

\* the underlying client answers the replay the recovery of session s awaits
AnswerReplay(s, ok) ==
    LET r == recs[s]
    IN  /\ r.pc = "await"
        /\ ok => canSucceed(r.req)
        /\ recs' = [recs EXCEPT ![s] =
                       replayAnswered(r, ok, subscritionMap, registrationMap,
                                      options, events, connection, conns)]
        /\ subscritionMap' =
              IF ok /\ r.req.action = "subscribe"
              THEN sinkThen(subscritionMap, r.req, newHandle(r.req))
              ELSE subscritionMap
        /\ registrationMap' =
              IF ok /\ r.req.action = "register"
              THEN sinkThen(registrationMap, r.req, newHandle(r.req))
              ELSE registrationMap
        /\ IF ok THEN /\ broker' = brokerAdd(r.req)
                      /\ nextHandle' = nextHandle + 1
           ELSE UNCHANGED <<broker, nextHandle>>
        /\ UNCHANGED <<received, connection, conns, options, objects, defaults, returned, events, tasks, nextSess, calls>>

(***************************************************************************)
(* The inputs and the specifications.                                      *)
(***************************************************************************)
MaxList == 2        \* elements of a list given to register or unregister

HookInputs == {"fn", "bad"}
RpcInputs ==
    {RPC(n, f) : n \in Procs, f \in UserFuncs}
        \cup {RPC(NotAString, Func("f")), RPC("p1", NotAFunction)}
SeqsUpTo(S, n) == UNION {[1..m -> S] : m \in 0..n}
Pair(name, func) == [shape |-> "pair", list |-> <<RPC(name, func)>>]
OptsInputs == {[subscribe |-> "s1", register |-> "r1"]}

\* the inputs of the registry and recovery specification: single names
RegisterOneInputs == {Pair(n, f) : n \in Procs, f \in UserFuncs}
UnregisterOneInputs == {<<RPC(n, NoCb)>> : n \in Procs}

\* the inputs of the batch specification: lists, well-formed or not
RegisterInputs ==
    {[shape |-> "array", list |-> l] : l \in SeqsUpTo(RpcInputs, MaxList)}
        \cup {Pair(e.name, e.func) : e \in RpcInputs}
        \cup {[shape |-> "other", list |-> << >>]}
UnregisterInputs == SeqsUpTo({RPC(n, NoCb) : n \in Names}, MaxList)

Transport ==
    \/ \E c \in ConnIds : TransportOpen(c)
    \/ \E c \in ConnIds, retry \in BOOLEAN : TransportClose(c, retry)
    \/ \E k \in Slots, ok \in BOOLEAN : AnswerCall(k, ok)
    \/ \E s \in SessIds, ok \in BOOLEAN : AnswerReplay(s, ok)

Next ==
    \/ \E c \in ConnIds : Connect(c)
    \/ \E k \in Slots : DisconnectCall(k)
    \/ \E k \in Slots, topic \in Topics, callback \in UserFuncs :
          Subscribe(k, topic, callback)
    \/ \E k \in Slots, topic \in Topics : Unsubscribe(k, topic)
    \/ \E k \in Slots, args \in RegisterOneInputs : Register(k, args)
    \/ \E k \in Slots, args \in UnregisterOneInputs : Unregister(k, args)
    \/ \E fun \in HookInputs : OnOpen(fun)
    \/ \E fun \in HookInputs : OnClose(fun)
    \/ \E fun \in HookInputs : OnRecover(fun)
    \/ \E fun \in HookInputs : OnError(fun)
    \/ \E newOpts \in OptsInputs : SetOpts(newOpts)
    \/ Transport

\* the registries, the connection, the hooks and the recovery
Spec == Init /\ [][Next]_vars

NextBatch ==
    \/ Connect(1)
    \/ \E k \in Slots, args \in RegisterInputs : Register(k, args)
    \/ \E k \in Slots, args \in UnregisterInputs : Unregister(k, args)
    \/ Transport

\* register and unregister with lists, on one connection
SpecBatch == Init /\ [][NextBatch]_vars

NextConnection ==
    \/ \E c \in ConnIds : Connect(c)
    \/ \E k \in TaskIds : DisconnectCall(k)
    \/ \E fun \in HookInputs : OnOpen(fun)
    \/ \E fun \in HookInputs : OnClose(fun)
    \/ \E c \in ConnIds : TransportOpen(c)
    \/ \E c \in ConnIds, retry \in BOOLEAN : TransportClose(c, retry)

\* connect and disconnect, with disconnect called while one is pending
SpecConnection == Init /\ [][NextConnection]_vars

\* the inputs of the call and publish specification
PublishOptsInputs == {[publish |-> p] : p \in PublishOpts}

ArgsInputs == {<< >>, <<Num(2)>>, <<Num(1), Num(2)>>, <<Hola, Mundo>>}

NextPublish ==
    \/ Connect(1)
    \/ \E k \in Slots, rpcName \in Names, args \in ArgsInputs :
          CallProcedure(k, rpcName, args)
    \/ \E k \in Slots, topic \in Topics \cup {NotAString}, params \in ArgsInputs :
          Publish(k, topic, params)
    \/ \E newOpts \in PublishOptsInputs : SetOpts(newOpts)
    \/ SetOptsDefault
    \/ TransportOpen(1)
    \/ \E retry \in BOOLEAN : TransportClose(1, retry)
    \/ \E k \in Slots, ok \in BOOLEAN : AnswerCall(k, ok)

\* call and publish under the publish options, on one connection
SpecPublish == Init /\ [][NextPublish]_vars

\* the inputs of the arguments specification: the procedures of rpcList,
\* one subscriber, and publications the publisher receives
RpcListInputs == {Pair("p1", Func("add2")), Pair("p2", Func("concat2"))}

NextArguments ==
    \/ Connect(1)
    \/ TransportOpen(1)
    \/ SetOpts([publish |-> "{exclude_me: false}"])
    \/ \E k \in Slots : Subscribe(k, "t1", Func("f"))
    \/ \E k \in Slots, args \in RpcListInputs : Register(k, args)
    \/ \E k \in Slots, rpcName \in Procs, args \in ArgsInputs :
          CallProcedure(k, rpcName, args)
    \/ \E k \in Slots, params \in ArgsInputs : Publish(k, "t1", params)
    \/ \E k \in Slots, ok \in BOOLEAN : AnswerCall(k, ok)
    \/ \E k \in Slots : InvokeProcedure(k)
    \/ \E k \in Slots : DeliverEvent(k)

\* calls and publications that reach the callbacks of this facade
SpecArguments == Init /\ [][NextArguments]_vars

\* the inputs of the options specifications: no key, one key, two keys, a
\* key the defaults do not have
SetOptsInputs ==
    {NoObject, [publish |-> "{x: 1}"], [subscribe |-> "s1", register |-> "r1"],
     [verbose |-> "true"]}
OptionKeys == DOMAIN DEFAULT_OPTS \cup UNION {DOMAIN o : o \in SetOptsInputs}
OptionValues == {DefaultOpt, "{x: 1}"}

NextSnapshot ==
    \/ \E newOpts \in SetOptsInputs : SetOpts(newOpts)
    \/ SetOptsDefault
    \/ GetOpts
    \/ \E key \in OptionKeys, val \in OptionValues : WriteProperty(key, val)
    \/ \E key \in OptionKeys, val \in OptionValues : WriteInside(key, val)

\* the operations on the options, with a caller that writes into what
\* getOpts returned
SpecSnapshot == Init /\ [][NextSnapshot]_vars

NextInterleaved ==
    \/ Connect(1)
    \/ \E k \in TaskIds, topic \in Topics, callback \in UserFuncs :
          Subscribe(k, topic, callback)
    \/ \E k \in TaskIds, topic \in Topics : Unsubscribe(k, topic)
    \/ TransportOpen(1)
    \/ \E k \in TaskIds, ok \in BOOLEAN : AnswerCall(k, ok)

\* subscribe and unsubscribe called while an earlier call is pending
SpecInterleaved == Init /\ [][NextInterleaved]_vars

NextRecovery ==
    \/ Connect(1)
    \/ \E k \in Slots, topic \in Topics, callback \in UserFuncs :
          Subscribe(k, topic, callback)
    \/ \E k \in Slots, args \in RegisterOneInputs : Register(k, args)
    \/ TransportReopen(1)
    \/ \E retry \in BOOLEAN : TransportClose(1, retry)
    \/ \E k \in Slots, ok \in BOOLEAN : AnswerCall(k, ok)
    \/ \E s \in SessIds, ok \in BOOLEAN : AnswerReplay(s, ok)

\* one connection that is lost and reopens, also during a recovery, with the
\* hooks as they are at the start
SpecRecovery == Init /\ [][NextRecovery]_vars

NextFrame ==
    \/ \E c \in ConnIds : Connect(c)
    \/ \E k \in Slots : DisconnectCall(k)
    \/ \E k \in Slots : Subscribe(k, "t1", Func("f"))
    \/ \E k \in Slots : Unsubscribe(k, "t1")
    \/ \E k \in Slots : Register(k, Pair("p1", Func("f")))
    \/ \E k \in Slots : Unregister(k, <<RPC("p1", NoCb)>>)
    \/ \E k \in Slots : CallProcedure(k, "p1", <<Num(2)>>)
    \/ \E k \in Slots : Publish(k, "t1", <<Num(2)>>)
    \/ GetOpts
    \/ \E newOpts \in OptsInputs : SetOpts(newOpts)
    \/ SetOptsDefault
    \/ OnOpen("fn")
    \/ OnClose("fn")
    \/ OnRecover("fn")
    \/ OnError("fn")
    \/ \E c \in ConnIds : TransportOpen(c)
    \/ \E c \in ConnIds, retry \in BOOLEAN : TransportClose(c, retry)
    \/ \E k \in Slots, ok \in BOOLEAN : AnswerCall(k, ok)
    \/ \E s \in SessIds, ok \in BOOLEAN : AnswerReplay(s, ok)

\* every operation of the interface, with one topic and one procedure
SpecFrame == Init /\ [][NextFrame]_vars

(***************************************************************************)
(* The recovery after a reconnection.                                      *)
(***************************************************************************)
\* the recovery r issued a replay for the entry e
Replayed(r, e) ==
    \E j \in 1..Len(r.log) : r.log[j].action = e.action /\ r.log[j].id = e.key

\* the entry e is in its registry
StillTracked(e) ==
    MapHas(MapOf(e.action, subscritionMap, registrationMap), e.key)

\* C1: every open of a connection after its first one starts a recovery; each
\* replay of a recovery goes to the session of the moment with the callback
\* stored in the registry and the subscribe or register options of the moment;
\* and a recovery that ended has issued a replay for every entry it found
\* and that is still in its registry.
C1_ReopenReplaysEveryEntry ==
    [][/\ \A c \in ConnIds :
             (TransportOpen(c) /\ conns[c].opens > 0)
                 => recs'[conns'[c].session].pc # "none"
       /\ \A s \in SessIds :
             Len(recs'[s].log) > Len(recs[s].log)
                 => LET req == recs'[s].log[Len(recs'[s].log)]
                        map == MapOf(req.action, subscritionMap', registrationMap')
                    IN  /\ req.sess = getSession(connection', conns')
                        /\ MapHas(map, req.id)
                        /\ req.cb = MapGet(map, req.id).cb
                        /\ req.opts = options'[req.action]
       /\ \A s \in SessIds :
             (recs'[s].pc = "done" /\ recs'[s].outcome = "resolved")
                 => \A e \in recs'[s].tracked :
                        StillTracked(e)' => Replayed(recs'[s], e)
      ]_vars

\* C2: in the replays of one recovery no register replay comes before a
\* subscribe replay, and the one request a recovery awaits is its last
\* replay, so every subscribe replay has settled when a register replay is
\* issued.
C2_SubscriptionsBeforeRegistrations ==
    \A s \in SessIds :
        LET log == recs[s].log
        IN  /\ \A j, k \in 1..Len(log) :
                  j < k => ~(log[j].action = "register" /\ log[k].action = "subscribe")
            /\ recs[s].pc = "await" => recs[s].req = log[Len(log)]
            /\ recs[s].pc # "await" => recs[s].req = NoReq

\* a recovery that replayed a subscription and then awaits a registration
C2_Witness ==
    \E s \in SessIds :
        /\ recs[s].pc = "await" /\ recs[s].req.action = "register"
        /\ \E j \in 1..Len(recs[s].log) : recs[s].log[j].action = "subscribe"

\* C3: each replay the underlying client rejects reaches the error hook once
\* with that failure, and a recovery with a rejected replay whose session is
\* still open ends having replayed every other entry it found.
C3_ReplayFailuresIsolated ==
    \A s \in SessIds :
        LET r == recs[s]
            told == SelectSeq(r.errs, LAMBDA e : e.kind = "Underlying")
            due == SelectSeq(r.failed, LAMBDA f : Callable(f.hook))
        IN  /\ Len(told) = Len(due)
            /\ \A j \in 1..Len(told) : told[j] = Err("Underlying", due[j].key)
            /\ (r.pc = "done" /\ r.failed # << >> /\ SessionLive(s))
                   => \A e \in r.tracked : StillTracked(e) => Replayed(r, e)

\* C4: a recovery calls the recover hook at most once and not before it
\* ended; a recovery that ended without a replay throwing for a missing
\* session was fulfilled, whatever replays were rejected, and called the
\* recover hook it was given once.
C4_RecoverHookOnce ==
    \A s \in SessIds :
        LET r == recs[s]
        IN  /\ r.onRecover <= 1
            /\ r.pc # "done" => r.onRecover = 0
            /\ (r.pc = "done" /\ r.error.kind # "NoSession")
                   => /\ r.outcome = "resolved"
                      /\ Callable(r.thenFn) => r.onRecover = 1

\* C5: after a recovery in which every replay succeeded, and while its
\* session is open, every entry the recovery found holds a handle of that
\* session, and an unsubscribe or unregister sent to that session carries a
\* handle of it.
C5_HandlesOfTheCurrentSession ==
    \A s \in SessIds :
        (/\ recs[s].pc = "done" /\ recs[s].outcome = "resolved"
         /\ recs[s].failed = << >> /\ SessionLive(s))
            => /\ \A e \in recs[s].tracked :
                     StillTracked(e) =>
                         MapGet(MapOf(e.action, subscritionMap, registrationMap),
                                e.key).opResult.sess = s
               /\ \A k \in Slots :
                     (tasks[k].req.action \in {"unsubscribe", "unregister"}
                          /\ tasks[k].req.sess = s)
                         => tasks[k].req.h.sess = s

(***************************************************************************)
(* The registries.                                                         *)
(***************************************************************************)
\* C6: subscribe for a topic in the registry is rejected as already
\* subscribed, issues no request and leaves the registry as it is; for a
\* topic not in the registry it is not rejected so and, with a session,
\* issues the subscribe; an unsubscribe that succeeds leaves the topic out of
\* the registry and a subscribe that succeeds leaves it in.
C6_DuplicateSubscribeRejected ==
    [][\A k \in Slots, topic \in Topics :
          /\ \A callback \in UserFuncs :
                Subscribe(k, topic, callback) =>
                    IF MapHas(subscritionMap, topic)
                    THEN /\ tasks'[k].res = "rejected"
                         /\ tasks'[k].err = Err("AlreadySubscribed", topic)
                         /\ tasks'[k].req = NoReq
                         /\ subscritionMap' = subscritionMap
                    ELSE /\ tasks'[k].err.kind # "AlreadySubscribed"
                         /\ HasSession(connection, conns) =>
                               /\ tasks'[k].res = "pending"
                               /\ tasks'[k].req.action = "subscribe"
                               /\ tasks'[k].req.id = topic
          /\ (/\ tasks[k].res = "pending" /\ tasks[k].req.id = topic
              /\ tasks'[k].res = "resolved")
                 => /\ tasks[k].op = "unsubscribe" => ~MapHas(subscritionMap', topic)
                    /\ tasks[k].op = "subscribe" => MapHas(subscritionMap', topic)
      ]_vars

\* a subscribe rejected for a topic that stays in the registry
C6_Witness ==
    \E k \in Slots :
        /\ tasks[k].op = "subscribe" /\ tasks[k].res = "rejected"
        /\ tasks[k].err.kind = "AlreadySubscribed"
        /\ MapHas(subscritionMap, tasks[k].err.key)

\* a subscribe that succeeded for a topic whose earlier handle the session
\* no longer holds: subscribed, unsubscribed and subscribed again
C6_SubscribedAgain ==
    \E k \in Slots :
        /\ tasks[k].op = "subscribe" /\ tasks[k].res = "resolved"
        /\ nextSess = 2 /\ Len(subscritionMap) = 1
        /\ subscritionMap[1].key = "t1" /\ subscritionMap[1].opResult.id = 2
        /\ Cardinality(broker) = 1 /\ calls = 4

\* C7: a register that settles for a name in the registration registry is
\* rejected and leaves the registry as it is.
C7_OneRegistrationPerProcedure ==
    [][\A k \in Slots :
          (/\ tasks[k].res = "pending" /\ tasks[k].req.action = "register"
           /\ MapHas(registrationMap, tasks[k].req.id)
           /\ tasks'[k] # tasks[k])
              => /\ tasks'[k].res = "rejected"
                 /\ registrationMap' = registrationMap
      ]_vars

\* C8: unsubscribe for a topic not in the registry is rejected as not
\* subscribed and issues no request; for a topic in it, with a session, it
\* issues an unsubscribe with the stored handle; the entry goes when that
\* request succeeds and only then, and a failure of it is the result.
C8_UnsubscribeWithStoredHandle ==
    [][\A k \in Slots, topic \in Topics :
          /\ Unsubscribe(k, topic) =>
                /\ subscritionMap' = subscritionMap
                /\ IF ~MapHas(subscritionMap, topic)
                   THEN /\ tasks'[k].res = "rejected"
                        /\ tasks'[k].err = Err("NotSubscribed", topic)
                        /\ tasks'[k].req = NoReq
                   ELSE HasSession(connection, conns) =>
                            /\ tasks'[k].res = "pending"
                            /\ tasks'[k].req.action = "unsubscribe"
                            /\ tasks'[k].req.h =
                                   MapGet(subscritionMap, topic).opResult
          /\ (/\ tasks[k].op = "unsubscribe" /\ tasks[k].res = "pending"
              /\ tasks[k].req.id = topic /\ tasks'[k] # tasks[k])
                 => IF tasks'[k].res = "resolved"
                    THEN ~MapHas(subscritionMap', topic)
                    ELSE /\ tasks'[k].res = "rejected"
                         /\ tasks'[k].err = Err("Underlying", topic)
                         /\ subscritionMap' = subscritionMap
          /\ (MapHas(subscritionMap, topic) /\ ~MapHas(subscritionMap', topic))
                 => \E j \in Slots :
                        /\ tasks[j].op = "unsubscribe" /\ tasks[j].req.id = topic
                        /\ tasks'[j].res = "resolved"
      ]_vars

\* an unsubscribe that succeeded, its topic gone, beside one that stays
C8_Witness ==
    \E k \in Slots :
        /\ tasks[k].op = "unsubscribe" /\ tasks[k].res = "resolved"
        /\ ~MapHas(subscritionMap, tasks[k].list[1].name)
        /\ nextHandle > 1

\* C9: unregister for a name not in the registry is rejected with the error
\* that says it is not registered, or with one that quotes it, and issues no
\* request; for a name in it, with a session, it issues an unregister with
\* the stored handle; the entry goes when that request succeeds and only then.
C9_UnregisterWithStoredHandle ==
    [][\A k \in Slots, name \in Procs :
          /\ Unregister(k, <<RPC(name, NoCb)>>) =>
                /\ registrationMap' = registrationMap
                /\ IF ~MapHas(registrationMap, name)
                   THEN /\ tasks'[k].res = "rejected"
                        /\ \/ tasks'[k].err.kind = "NotRegistered"
                           \/ tasks'[k].err.cause \notin {"", "{}"}
                        /\ tasks'[k].req = NoReq
                   ELSE HasSession(connection, conns) =>
                            /\ tasks'[k].res = "pending"
                            /\ tasks'[k].req.action = "unregister"
                            /\ tasks'[k].req.h =
                                   MapGet(registrationMap, name).opResult
          /\ (/\ tasks[k].op = "unregister" /\ tasks[k].res = "pending"
              /\ tasks[k].req.id = name /\ tasks'[k].res = "resolved")
                 => ~MapHas(registrationMap', name)
          /\ (MapHas(registrationMap, name) /\ ~MapHas(registrationMap', name))
                 => \E j \in Slots :
                        /\ tasks[j].op = "unregister" /\ tasks[j].req.id = name
                        /\ tasks'[j] # tasks[j] /\ tasks'[j].res # "rejected"
      ]_vars

\* C10: a register with a list that was rejected stopped at an element: its
\* error names that element and every element before it is in the
\* registration registry.
C10_RegisterListStopsAtFirstFailure ==
    \A k \in Slots :
        (tasks[k].op = "registerMany" /\ tasks[k].res # "pending")
            => /\ tasks[k].res \in {"resolved", "rejected"}
               /\ tasks[k].res = "resolved" => tasks[k].i = Len(tasks[k].list) + 1
               /\ tasks[k].res = "rejected" =>
                     /\ tasks[k].i \in 1..Len(tasks[k].list)
                     /\ tasks[k].err.kind = "FailedToRegister"
                     /\ tasks[k].err.key = tasks[k].list[tasks[k].i].name
                     /\ \A j \in 1..(tasks[k].i - 1) :
                           MapHas(registrationMap, tasks[k].list[j].name)

(***************************************************************************)
(* register and unregister with lists.                                     *)
(***************************************************************************)
\* C11: unregister with names takes them in order; a step of it removes from
\* the registration registry the name whose request succeeded and nothing
\* else; a rejected one stopped at a name and the names before that one are
\* gone; a fulfilled one went through all the names and all are gone.
C11_UnregisterStopsAtFirstFailure ==
    [][\A k \in Slots :
          /\ (tasks'[k].op = "unregister" /\ calls' # calls)
                 => registrationMap' = registrationMap
          /\ (/\ tasks[k].op = "unregister" /\ tasks[k].res = "pending"
              /\ tasks'[k] # tasks[k])
                 => /\ tasks'[k].list = tasks[k].list
                    /\ IF tasks'[k].res = "rejected" /\ tasks'[k].i = tasks[k].i
                       THEN registrationMap' = registrationMap
                       ELSE /\ tasks'[k].i > tasks[k].i
                            /\ registrationMap' =
                                   MapDelete(registrationMap,
                                             tasks[k].list[tasks[k].i].name)
                            /\ ~MapHas(registrationMap',
                                       tasks[k].list[tasks[k].i].name)
          /\ (tasks'[k].op = "unregister" /\ tasks'[k].res = "rejected")
                 => /\ tasks'[k].i \in 1..Len(tasks'[k].list)
                    /\ tasks'[k] # tasks[k] =>
                          \A j \in 1..(tasks'[k].i - 1) :
                              ~MapHas(registrationMap', tasks'[k].list[j].name)
          /\ (tasks'[k].op = "unregister" /\ tasks'[k].res = "resolved"
              /\ tasks'[k] # tasks[k])
                 => /\ tasks'[k].i = Len(tasks'[k].list) + 1
                    /\ \A j \in 1..Len(tasks'[k].list) :
                           ~MapHas(registrationMap', tasks'[k].list[j].name)
          /\ tasks'[k].op = "unregister" => tasks'[k].res # "thrown"
      ]_vars

\* an unregister of two names rejected at the second, the first removed
C11_Witness ==
    \E k \in Slots :
        /\ tasks[k].op = "unregister" /\ tasks[k].res = "rejected"
        /\ Len(tasks[k].list) = 2 /\ tasks[k].i = 2
        /\ tasks[k].list[1].name # tasks[k].list[2].name
        /\ ~MapHas(registrationMap, tasks[k].list[1].name)
        /\ nextHandle > 1

\* C12: the error of a rejected unregister carries the name it stopped at.
C12_UnregisterErrorNamesTheName ==
    \A k \in Slots :
        (tasks[k].op = "unregister" /\ tasks[k].res = "rejected")
            => tasks[k].err.key = tasks[k].list[tasks[k].i].name

\* an element register or unregister refuses: a name that is no string, or
\* for register a func that is no function
Malformed(op, e) ==
    \/ e.name = NotAString
    \/ op \in {"register", "registerMany"} /\ e.func.type # "function"

\* C13 as stated: a register or an unregister given a malformed element is
\* never thrown and has no request with the underlying client.
C13_MalformedInputIssuesNoRequest ==
    \A k \in Slots :
        (/\ tasks[k].op \in {"register", "registerMany", "unregister"}
         /\ \E j \in 1..Len(tasks[k].list) : Malformed(tasks[k].op, tasks[k].list[j]))
            => tasks[k].res # "thrown" /\ tasks[k].req = NoReq

\* C13 amended: a register or unregister that comes to a malformed element,
\* or a register given neither a list nor a name and a function, is rejected
\* there, not thrown, with no request for that element and no change of a
\* registry for it: the step changes nothing but what the answer for the
\* element before it brings.
C13_MalformedElementRejected ==
    [][\A k \in Slots :
          LET t == tasks'[k]
              answer == tasks[k].res = "pending"
          IN  (/\ t # tasks[k]
               /\ t.op \in {"register", "registerMany", "unregister"}
               /\ \/ t.op = "register" /\ t.list = << >>
                  \/ /\ t.i \in 1..Len(t.list)
                     /\ Malformed(t.op, t.list[t.i]))
                  => /\ t.res = "rejected"
                     /\ t.req = NoReq
                     /\ t.err.kind \in {"Unrecognized parameters",
                                        "FailedToRegister", "FailedToUnregister"}
                     /\ subscritionMap' = subscritionMap
                     /\ ~answer => registrationMap' = registrationMap
                     /\ (answer /\ t.op = "registerMany") =>
                            /\ MapKeys(registrationMap') =
                                   MapKeys(registrationMap) \cup {tasks[k].req.id}
                            /\ NotAString \notin MapKeys(registrationMap')
                     /\ (answer /\ t.op = "unregister") =>
                            registrationMap' =
                                MapDelete(registrationMap, tasks[k].req.id)
      ]_vars

\* a register with a list rejected at its second element, which is
\* malformed, the first one registered
C13_Witness ==
    \E k \in Slots :
        /\ tasks[k].op = "registerMany" /\ tasks[k].res = "rejected"
        /\ tasks[k].i = 2
        /\ Malformed("registerMany", tasks[k].list[2])
        /\ MapHas(registrationMap, tasks[k].list[1].name)

(***************************************************************************)
(* The hooks and the connection.                                           *)
(***************************************************************************)
\* C14: every slot of events holds a callable: no setter stores a value that
\* is no function.
C14_EverySlotCallable ==
    \A slot \in DOMAIN events : Callable(events[slot])

\* C15: the result of connect is fulfilled only after an open of the
\* connection it created and is fulfilled by that open; a close of that
\* connection before any open rejects it with the reason and the details of
\* the close; a settled result does not change.
C15_ConnectResult ==
    [][\A c \in ConnIds :
          /\ conns'[c].promise = "resolved" => conns'[c].opens > 0
          /\ (TransportOpen(c) /\ conns[c].promise = "pending")
                 => conns'[c].promise = "resolved"
          /\ \A retry \in BOOLEAN :
                (TransportClose(c, retry) /\ conns[c].opens = 0
                     /\ conns[c].promise = "pending")
                    => /\ conns'[c].promise = "rejected"
                       /\ conns'[c].rejection =
                              [reason |-> closeReason(conns[c]),
                               details |-> closeDetails(retry)]
          /\ conns[c].promise \in {"resolved", "rejected"}
                 => /\ conns'[c].promise = conns[c].promise
                    /\ conns'[c].rejection = conns[c].rejection
      ]_vars

\* C16: a close of a connection that disconnect did not ask for calls the
\* events.onClose of that moment, once, with the reason and the details.
C16_CloseHookOnEveryClose ==
    [][\A c \in ConnIds, retry \in BOOLEAN :
          (TransportClose(c, retry) /\ conns[c].state # "closing")
              => conns'[c].closeCall =
                     [hook |-> events.onClose, reason |-> closeReason(conns[c]),
                      details |-> closeDetails(retry)]
      ]_vars

\* C17: an open of a connection calls the open hook, where the slot holds a
\* callable, and the first open of a connection starts no recovery and calls
\* no recover hook.
C17_OpenHookOnEveryOpen ==
    [][\A c \in ConnIds :
          TransportOpen(c)
              => /\ Callable(events.onOpen) => conns'[c].openCall = "invoked"
                 /\ conns[c].opens = 0 => recs' = recs
      ]_vars

\* C18: disconnect is never thrown; without a connection, or when close
\* throws, its result is rejected; and a close of the connection fulfils
\* every result of a disconnect of it that is pending.
C18_DisconnectResult ==
    [][\A k \in TaskIds :
          /\ tasks'[k].op = "disconnect" => tasks'[k].res # "thrown"
          /\ (DisconnectCall(k) /\ connection = 0) => tasks'[k].res = "rejected"
          /\ (DisconnectCall(k) /\ connection # 0)
                 => IF conns[connection].state = "closed"
                    THEN tasks'[k].res = "rejected"
                    ELSE tasks'[k].res = "pending"
          /\ (tasks[k].op = "disconnect" /\ tasks[k].res = "pending"
              /\ tasks'[k].res # "pending")
                 => /\ tasks'[k].res = "resolved"
                    /\ \E c \in ConnIds : TransportClose(c, FALSE)
          /\ (/\ tasks[k].op = "disconnect" /\ tasks[k].res = "pending"
              /\ \E c \in ConnIds : TransportClose(c, FALSE) /\ conns[c].state = "closing"
              /\ Cardinality({c \in ConnIds : conns[c].state = "closing"}) = 1
              /\ \A c \in ConnIds : conns[c].state \in {"closing", "none"})
                 => tasks'[k].res = "resolved"
      ]_vars

(***************************************************************************)
(* call and publish.                                                       *)
(***************************************************************************)
\* C19: publish returns an already-succeeded deferred result when the publish
\* options do not request acknowledgement (acknowledge absent or false) and
\* the underlying client's pending result when they do; what it returns is
\* always a deferred result.
C19_PublishReturnsDeferred ==
    [][\A k \in Slots, topic \in Topics \cup {NotAString}, params \in ArgsInputs :
          Publish(k, topic, params) =>
              /\ tasks'[k].res \in {"pending", "resolved", "rejected"}
              /\ ~throws(topic, connection, conns) =>
                    IF acknowledge(options.publish) = "true"
                    THEN tasks'[k].res = "pending" /\ tasks'[k].req.action = "publish"
                    ELSE tasks'[k].res = "resolved"]_vars

\* C20: call turns a synchronous throw of the underlying client, a missing
\* session included, into a failed deferred result; it never throws.
C20_CallNeverThrows ==
    [][\A k \in Slots, rpcName \in Names, args \in ArgsInputs :
          CallProcedure(k, rpcName, args) =>
              /\ tasks'[k].res # "thrown"
              /\ throws(rpcName, connection, conns) =>
                    /\ tasks'[k].res = "rejected"
                    /\ tasks'[k].req = NoReq
              /\ ~throws(rpcName, connection, conns) =>
                    tasks'[k].res = "pending"]_vars

\* a call made after the session was lost has failed
C20_Witness ==
    \E k \in Slots :
        /\ tasks[k].op = "call"
        /\ tasks[k].res = "rejected"
        /\ tasks[k].err.kind = "NoSession"
        /\ connection # 0
        /\ conns[connection].opens > 0

(***************************************************************************)
(* One connection per facade.                                              *)
(***************************************************************************)
\* the connections whose transport is open, opening or retrying
Alive(cs) == {c \in ConnIds : cs[c].state \in {"opening", "open", "retrying"}}

\* C28: at most one connection that connect created is open or opening at a
\* time, and a connect leaves no earlier connection alive.
C28_OneConnectionAlive ==
    [][/\ Cardinality(Alive(conns')) <= 1
       /\ \A c \in ConnIds :
             Connect(c) => \A d \in ConnIds \ {c} : d \notin Alive(conns')
      ]_vars

(***************************************************************************)
(* Calls that overlap.                                                     *)
(***************************************************************************)
\* the subscriptions of a topic that the open sessions hold at the router
LiveSubscriptions(topic) ==
    {h \in broker : h.kind = "subscribe" /\ h.key = topic /\ SessionLive(h.sess)}

\* C30: a topic has at most one subscription at the router, and the handle of
\* every subscription made is the one its registry entry stores, also when
\* subscribe is called again before the first request was answered.
C30_OneSubscriptionPerTopic ==
    \A topic \in Topics :
        /\ Cardinality(LiveSubscriptions(topic)) <= 1
        /\ \A h \in LiveSubscriptions(topic) :
              /\ MapHas(subscritionMap, topic)
              /\ MapGet(subscritionMap, topic).opResult = [sess |-> h.sess, id |-> h.id]

(***************************************************************************)
(* Recovery and the registries.                                            *)
(***************************************************************************)
\* C29: no step of a recovery (the reopen that starts it, the answers to its
\* replays) changes a key, a callback or a handle of a registry; an entry
\* whose replay failed is still in its registry, and a recovery that starts
\* finds every entry the registries hold.
C29_RecoveryLeavesRegistries ==
    [][/\ \A s \in SessIds, ok \in BOOLEAN :
             AnswerReplay(s, ok)
                 => /\ subscritionMap' = subscritionMap
                    /\ registrationMap' = registrationMap
                    /\ MapHas(MapOf(recs[s].req.action, subscritionMap, registrationMap),
                              recs[s].req.id)
                          => MapHas(MapOf(recs[s].req.action, subscritionMap',
                                          registrationMap'), recs[s].req.id)
       /\ \A c \in ConnIds :
             TransportOpen(c)
                 => /\ subscritionMap' = subscritionMap
                    /\ registrationMap' = registrationMap
                    /\ \A s \in SessIds :
                          (recs[s].pc = "none" /\ recs'[s].pc # "none")
                              => recs'[s].tracked =
                                     Tracked(subscritionMap', registrationMap')
      ]_vars

\* a recovery ended, one of its replays succeeded and one failed, and the
\* registry holds both entries with the handles of the session before
C29_Witness ==
    \E s \in SessIds :
        /\ recs[s].pc = "done"
        /\ Len(recs[s].log) = 2
        /\ Len(recs[s].failed) = 1
        /\ \A i \in 1..2 :
              LET req == recs[s].log[i]
                  map == MapOf(req.action, subscritionMap, registrationMap)
              IN  /\ MapHas(map, req.id)
                  /\ MapGet(map, req.id).opResult.sess # s

(***************************************************************************)
(* The options.                                                            *)
(***************************************************************************)
\* C24: whatever came before it, what getOpts returns after setOptsDefault is
\* the default structure, key for key and value for value.
C24_ResetYieldsDefaults ==
    [][SetOptsDefault => getOpts(options') = DEFAULT_OPTS]_vars

C26_GetOptsEqualsArgument ==
    [][\A newOpts \in SetOptsInputs :
          SetOpts(newOpts) => getOpts(options') = newOpts]_vars

\* C27: a write of the caller to the object getOpts returned, to one of its
\* properties or inside one of them, changes neither the options in use nor
\* what getOpts and setOptsDefault yield afterwards.
C27_GetOptsReturnsSnapshot ==
    [][\A key \in OptionKeys, val \in OptionValues :
          (WriteProperty(key, val) \/ WriteInside(key, val))
              => /\ options' = options
                 /\ getOpts(options') = getOpts(options)
                 /\ setOptsDefault(defaults') = setOptsDefault(defaults)
      ]_vars

(***************************************************************************)
(* The arguments of call and publish.                                      *)
(***************************************************************************)
\* C21: a call and a publication with a session and a name that is a string
\* send one request: its arguments are the values given, in their order, the
\* empty sequence for none, and its options are the call or publish options
\* of that moment; without a session nothing is sent.
C21_OneRequestWithTheArguments ==
    [][/\ \A k \in Slots, rpcName \in Names, args \in ArgsInputs :
             CallProcedure(k, rpcName, args)
                 => tasks'[k].req =
                        IF throws(rpcName, connection, conns) THEN NoReq
                        ELSE [NoReq EXCEPT !.action = "call", !.id = rpcName,
                                           !.args = args, !.opts = options.call,
                                           !.sess = getSession(connection, conns)]
       /\ \A k \in Slots, topic \in Topics \cup {NotAString}, params \in ArgsInputs :
             Publish(k, topic, params)
                 => tasks'[k].req =
                        IF throws(topic, connection, conns) THEN NoReq
                        ELSE [NoReq EXCEPT !.action = "publish", !.id = topic,
                                           !.args = params,
                                           !.opts = options.publish,
                                           !.sess = getSession(connection, conns)]
      ]_vars

\* a publication of two values under options that setOpts has set
C21_Witness ==
    \E k \in Slots :
        /\ tasks[k].op = "publish"
        /\ tasks[k].req.args = <<Hola, Mundo>>
        /\ tasks[k].req.opts = "{acknowledge: true}"
        /\ tasks[k].req.sess = getSession(connection, conns)

C23_ProcedureGetsArgumentArray ==
    [][\A k \in Slots :
          InvokeProcedure(k)
              => /\ param(received'.params, 1) = Arr(tasks[k].req.args)
                 /\ (received'.cb = "add2" /\ tasks[k].req.args = <<Num(2)>>)
                       => tasks'[k].value = Num(4)
                 /\ (received'.cb = "concat2" /\ tasks[k].req.args = <<Hola, Mundo>>)
                       => tasks'[k].value = HolaMundo
      ]_vars

(***************************************************************************)
(* The iteration of a recovery phase.                                      *)
(***************************************************************************)
\* the keys the phase a recovery is in replays: those it has replayed and
\* those its iterator, for ( const [ key, data ] of map ), has yet to take
PhaseReplays(r, subs, regs) ==
    LET action == PhaseOrder[r.phase]
        map == MapOf(action, subs, regs)
    IN  {r.log[j].id : j \in {n \in 1..Len(r.log) : r.log[n].action = action}}
            \cup {map[i].key : i \in (r.idx + 1)..Len(map)}

\* C31: while a phase of a recovery is in progress, no step changes the set
\* of entries the phase replays: a subscribe or register, an unsubscribe or
\* unregister that completes meanwhile leaves it the set the phase started
\* with.
C31_PhaseIteratesSnapshot ==
    [][\A s \in SessIds :
          (/\ recs[s].pc = "await" /\ recs'[s].pc = "await"
           /\ recs'[s].phase = recs[s].phase)
              => PhaseReplays(recs'[s], subscritionMap', registrationMap')
                    = PhaseReplays(recs[s], subscritionMap, registrationMap)
      ]_vars

(***************************************************************************)
(* A recovery whose session is lost.                                       *)
(***************************************************************************)
\* the recovery r attempted the entry e: it issued the replay, or add threw
\* for it because there was no session
Attempted(r, e) ==
    Replayed(r, e) \/ r.error = Err("NoSession", e.key)

\* C32: a recovery that ended was not rejected, also where the session was
\* lost meanwhile and a replay threw; it attempted every entry it found, and
\* the error hook received each failure, the rejected replays and the throws.
C32_RecoveryNeverAborted ==
    \A s \in SessIds :
        LET r == recs[s]
            thrown1 == IF r.error.kind = "NoSession" THEN 1 ELSE 0
        IN  r.pc = "done"
                => /\ r.outcome = "resolved"
                   /\ \A e \in r.tracked : StillTracked(e) => Attempted(r, e)
                   /\ Len(r.errs) = Len(r.failed) + thrown1

(***************************************************************************)
(* The order of the requests of a batch.                                   *)
(***************************************************************************)
\* C33: the request a register( list ) or an unregister( names ) awaits is
\* that of its i-th item; a batch starts with its first item and goes from
\* item i to item i + 1 only in the step that answers the request of item i.
\* A recovery issues at most one replay in a step, its first when it starts
\* and each later one in the step that answers the replay before it, which
\* is the one request it awaits.
C33_BatchesStrictlySequential ==
    [][/\ \A k \in Slots :
             LET t == tasks[k]
                 u == tasks'[k]
                 same == t.res = "pending" /\ t.op = u.op /\ t.list = u.list
             IN  (u.op \in {"registerMany", "unregister"} /\ u.res = "pending")
                     => /\ u.req.id = u.list[u.i].name
                        /\ \/ t.res # "pending" /\ u.i = 1
                           \/ same /\ u.i = t.i /\ u.req = t.req
                           \/ same /\ u.i = t.i + 1 /\ AnswerCall(k, TRUE)
       /\ \A s \in SessIds :
             LET r == recs[s]
                 q == recs'[s]
             IN  /\ Len(q.log) <= Len(r.log) + 1
                 /\ Len(q.log) > Len(r.log)
                       => /\ q.req = q.log[Len(q.log)]
                          /\ \/ r.pc = "none"
                             \/ /\ r.pc = "await" /\ r.req = r.log[Len(r.log)]
                                /\ \E ok \in BOOLEAN : AnswerReplay(s, ok)
      ]_vars

\* a register( list ) went through its two elements, one request after the
\* other, and a recovery that replayed the first of them awaits the replay of
\* the second
C33_Witness ==
    /\ \E k \in Slots :
          /\ tasks[k].op = "registerMany" /\ tasks[k].res = "resolved"
          /\ Len(tasks[k].list) = 2 /\ tasks[k].i = 3
    /\ \E s \in SessIds : recs[s].pc = "await" /\ Len(recs[s].log) = 2

(***************************************************************************)
(* When a registry gains an entry.                                         *)
(***************************************************************************)
\* C34: the answer to the request of a subscribe or of a register( name,
\* func ) decides: on success the registry holds, under the key, the adapted
\* callback and the handle the underlying client returned, and the result is
\* fulfilled; on failure the result is rejected with that failure and both
\* registries are as before.  No other step puts a key into a registry: not
\* the call itself, and no answer to another request.
C34_EntryAddedOnlyOnSuccess ==
    [][/\ \A k \in Slots, ok \in BOOLEAN :
             (AnswerCall(k, ok) /\ tasks[k].op \in {"subscribe", "register"})
                 => LET t == tasks[k]
                        map == MapOf(t.op, subscritionMap', registrationMap')
                    IN  IF ok
                        THEN /\ MapHas(map, t.list[1].name)
                             /\ MapGet(map, t.list[1].name).cb
                                    = deCrossbarify(t.list[1].func)
                             /\ MapGet(map, t.list[1].name).opResult
                                    = [sess |-> t.req.sess, id |-> nextHandle]
                             /\ \E h \in broker' :
                                   /\ h.sess = t.req.sess /\ h.id = nextHandle
                                   /\ h.kind = t.op /\ h.key = t.list[1].name
                             /\ tasks'[k].res = "resolved"
                        ELSE /\ tasks'[k].res = "rejected"
                             /\ tasks'[k].err = Err("Underlying", t.list[1].name)
                             /\ subscritionMap' = subscritionMap
                             /\ registrationMap' = registrationMap
       /\ \A action \in {"subscribe", "register"}, key \in Topics \cup Procs :
             (/\ ~MapHas(MapOf(action, subscritionMap, registrationMap), key)
              /\ MapHas(MapOf(action, subscritionMap', registrationMap'), key))
                 => \E k \in Slots :
                       /\ AnswerCall(k, TRUE)
                       /\ tasks[k].req.action = action /\ tasks[k].req.id = key
      ]_vars

\* a subscribe or a register was rejected with the failure of the underlying
\* client and its key is in no registry, while an earlier one is
C34_Witness ==
    \E k \in Slots :
        /\ tasks[k].op \in {"subscribe", "register"}
        /\ tasks[k].res = "rejected" /\ tasks[k].err.kind = "Underlying"
        /\ ~MapHas(MapOf(tasks[k].op, subscritionMap, registrationMap),
                   tasks[k].list[1].name)
        /\ Len(subscritionMap) + Len(registrationMap) > 0

(***************************************************************************)
(* The registries and the session.                                         *)
(***************************************************************************)
\* the router holds, for the session s, a subscription or a registration of
\* the key
Live(action, key, s) ==
    \E h \in broker : h.kind = action /\ h.key = key /\ h.sess = s

\* no call of the interface awaits its result and no recovery awaits a replay
AtRest ==
    /\ \A k \in TaskIds : tasks[k].res # "pending"
    /\ \A c \in ConnIds : conns[c].promise # "pending"
    /\ \A s \in SessIds : recs[s].pc # "await"

\* C35: where the connection the facade holds has a session and nothing is
\* in progress, every topic of the subscription registry and every procedure
\* of the registration registry is subscribed or registered in that session.
C35_TrackedImpliesLive ==
    (HasSession(connection, conns) /\ AtRest)
        => \A e \in Tracked(subscritionMap, registrationMap) :
               Live(e.action, e.key, getSession(connection, conns))

(***************************************************************************)
(* Recoveries that overlap.                                                *)
(***************************************************************************)
\* the replays issued so far, each with the recovery that issued it and its
\* place in that recovery
Replays ==
    UNION {{[rec |-> s, n |-> j, req |-> recs[s].log[j]] :
               j \in 1..Len(recs[s].log)} : s \in SessIds}

\* C36: no two replays, of one recovery or of two, carry the same topic or
\* the same procedure to the same session.
C36_ReplayedOncePerSession ==
    \A a, b \in Replays :
        (/\ a.req.action = b.req.action /\ a.req.id = b.req.id
         /\ a.req.sess = b.req.sess)
            => a = b

(***************************************************************************)
(* The result of connect and the events of its connection.                 *)
(***************************************************************************)
\* C37: with the open hook a function, the result of a connect that is
\* pending is fulfilled in the step in which the transport of its connection
\* opens and rejected in the step in which it closes, whatever connect or
\* disconnect was called since.
C37_ConnectResultSettles ==
    [][\A c \in ConnIds :
          (Callable(events.onOpen) /\ conns[c].promise = "pending")
              => /\ TransportOpen(c) => conns'[c].promise = "resolved"
                 /\ \A retry \in BOOLEAN :
                       TransportClose(c, retry) => conns'[c].promise = "rejected"
      ]_vars

(***************************************************************************)
(* The operations on the registries without a session.                     *)
(***************************************************************************)
\* C38: a subscribe, an unsubscribe, a register or an unregister called
\* while the facade has no connection or its connection has no session
\* returns a result that is rejected, does not throw, and leaves both
\* registries as they are.
C38_NoSessionRejects ==
    [][\A k \in Slots :
          (/\ ~HasSession(connection, conns)
           /\ \/ \E topic \in Topics, callback \in UserFuncs :
                    Subscribe(k, topic, callback)
              \/ \E topic \in Topics : Unsubscribe(k, topic)
              \/ \E args \in RegisterOneInputs : Register(k, args)
              \/ \E args \in UnregisterOneInputs : Unregister(k, args))
              => /\ tasks'[k].res = "rejected"
                 /\ subscritionMap' = subscritionMap
                 /\ registrationMap' = registrationMap
      ]_vars

(***************************************************************************)
(* What leaves the registries alone.                                       *)
(***************************************************************************)
\* both registries after a step are what they were before it
RegistriesUnchanged ==
    subscritionMap' = subscritionMap /\ registrationMap' = registrationMap

\* C39: a call, a publish, a getOpts, a setOpts, a setOptsDefault, a setter
\* of a hook, a connect, a disconnect and a close of the transport leave both
\* registries as they are; a subscribe or an unsubscribe, from its call to
\* the answer to its request, leaves the registration registry as it is, and
\* a register or an unregister the subscription registry.
C39_RegistryFrame ==
    [][/\ (\/ \E k \in Slots, rpcName \in Names, args \in ArgsInputs :
                 CallProcedure(k, rpcName, args)
           \/ \E k \in Slots, topic \in Topics \cup {NotAString},
                    params \in ArgsInputs : Publish(k, topic, params)
           \/ GetOpts
           \/ \E newOpts \in OptsInputs \cup PublishOptsInputs : SetOpts(newOpts)
           \/ SetOptsDefault
           \/ \E fun \in HookInputs :
                 OnOpen(fun) \/ OnClose(fun) \/ OnRecover(fun) \/ OnError(fun)
           \/ \E c \in ConnIds : Connect(c)
           \/ \E k \in Slots : DisconnectCall(k)
           \/ \E c \in ConnIds, retry \in BOOLEAN : TransportClose(c, retry)
           \/ \E k \in Slots, ok \in BOOLEAN :
                 AnswerCall(k, ok) /\ tasks[k].op \in {"call", "publish", "disconnect"})
             => RegistriesUnchanged
       /\ (\/ \E k \in Slots, topic \in Topics, callback \in UserFuncs :
                 Subscribe(k, topic, callback)
           \/ \E k \in Slots, topic \in Topics : Unsubscribe(k, topic)
           \/ \E k \in Slots, ok \in BOOLEAN :
                 AnswerCall(k, ok) /\ tasks[k].op \in {"subscribe", "unsubscribe"})
             => registrationMap' = registrationMap
       /\ (\/ \E k \in Slots, args \in RegisterOneInputs : Register(k, args)
           \/ \E k \in Slots, args \in UnregisterOneInputs : Unregister(k, args)
           \/ \E k \in Slots, ok \in BOOLEAN :
                 AnswerCall(k, ok) /\ tasks[k].op \in {"register", "unregister"})
             => subscritionMap' = subscritionMap
      ]_vars

\* a disconnect was fulfilled by the close of the transport and the
\* registries hold what they held
C39_Witness ==
    /\ \E k \in Slots : tasks[k].op = "disconnect" /\ tasks[k].res = "resolved"
    /\ Len(subscritionMap) = 1 /\ Len(registrationMap) = 1

=============================================================================
